---- MODULE Spec2Model ----
(***************************************************************************)
(* The basic blocks of the compiler (graphql_compiler/compiler/blocks.py)  *)
(* as a state machine: a client constructs blocks, renders them with       *)
(* to_gremlin, rewrites Filter / ConstructResult blocks with               *)
(* visit_and_update_expressions and, in the aliasing scenario, assigns to  *)
(* a block's attribute after construction.                                 *)
(*                                                                         *)
(* Python values are tagged records ([t |-> <type name>, ...]); text is a  *)
(* TLA+ string built with \o exactly as str.format / str.join build it.    *)
(* A raised exception is the name of its class, "none" is a normal return. *)
(***************************************************************************)
EXTENDS Integers, Sequences, FiniteSets, TLC

VARIABLES heap, ret, mapping

vars == <<heap, ret, mapping>>

(***************************************************************************)
(* Bounds of the model.                                                    *)
(***************************************************************************)
MaxBlocks == 2
MaxClasses == 2
MaxFields == 2
MaxDepth == 2

(***************************************************************************)
(* Python values.                                                          *)
(***************************************************************************)
PyStr(s) == [t |-> "str", s |-> s]
PyInt(i) == [t |-> "int", i |-> i]
PyBool(b) == [t |-> "bool", b |-> b]
PyFloat(whole) == [t |-> "float", whole |-> whole]
PyNone == [t |-> "NoneType"]
PySet(order) == [t |-> "set", order |-> order]
PyList(items) == [t |-> "list", items |-> items]
PyDict(items) == [t |-> "dict", items |-> items]

Range(seq) == {seq[i] : i \in 1..Len(seq)}

\* The sequences of distinct elements of S, of length at most n.
RECURSIVE DistinctSeqs(_, _)
DistinctSeqs(S, n) ==
    IF n = 0 THEN {<<>>}
    ELSE LET shorter == DistinctSeqs(S, n - 1)
         IN  shorter \cup
             {Append(q, x) : <<q, x>> \in
                 {<<q, x>> \in shorter \X S : Len(q) = n - 1 /\ x \notin Range(q)}}

\* The orders in which the elements of a set (or the keys of a dict) may
\* be enumerated.
Orderings(S) == {q \in DistinctSeqs(S, Cardinality(S)) : Len(q) = Cardinality(S)}

(***************************************************************************)
(* Text.                                                                   *)
(***************************************************************************)
\* The characters the model uses, in code-point order.
Alphabet == "'0123456789ABCDEFGHIJKLMNOPQRSTUVWXYZ_abcdefghijklmnopqrstuvwxyz"

Char(s, i) == SubSeq(s, i, i)
Chars(s) == {Char(s, i) : i \in 1..Len(s)}
Ord(c) == CHOOSE i \in 1..Len(Alphabet) : Char(Alphabet, i) = c

Digits == Chars("0123456789")
Letters == Chars("ABCDEFGHIJKLMNOPQRSTUVWXYZabcdefghijklmnopqrstuvwxyz")
VARIABLE_ALLOWED_CHARS == Letters \cup Digits \cup {"_"}

\* str < str: comparison by code points, a proper prefix comes first.
RECURSIVE StrLess(_, _)
StrLess(a, b) ==
    IF Len(b) = 0 THEN FALSE
    ELSE IF Len(a) = 0 THEN TRUE
    ELSE IF Head(a) = Head(b) THEN StrLess(Tail(a), Tail(b))
    ELSE Ord(Head(a)) < Ord(Head(b))

\* sep.join(parts)
RECURSIVE Join(_, _)
Join(sep, parts) ==
    IF Len(parts) = 0 THEN ""
    ELSE IF Len(parts) = 1 THEN parts[1]
    ELSE parts[1] \o sep \o Join(sep, Tail(parts))

\* s * n
RECURSIVE Repeat(_, _)
Repeat(s, n) == IF n <= 0 THEN "" ELSE s \o Repeat(s, n - 1)

\* The outcome of a call: the exception it raised ("none": it returned) and
\* the text it returned.
Return(text) == [exc |-> "none", text |-> text]
Raise(e) == [exc |-> e, text |-> ""]

\* The first exception of a sequence of checks made in order.
RECURSIVE FirstError(_)
FirstError(checks) ==
    IF Len(checks) = 0 THEN "none"
    ELSE IF Head(checks) # "none" THEN Head(checks)
    ELSE FirstError(Tail(checks))

(***************************************************************************)
(* helpers.py                                                              *)
(***************************************************************************)
isinstance_str(x) == x.t = "str"
isinstance_bool(x) == x.t = "bool"
\* bool is a subclass of int.
isinstance_int(x) == x.t \in {"int", "bool"}
isinstance_Expression(x) == x.t = "Expression"

\* The integer a Python int (or bool) stands for.
IntValue(x) == IF x.t = "bool" THEN (IF x.b THEN 1 ELSE 0) ELSE x.i

validate_safe_string(value) ==
    IF ~isinstance_str(value) THEN "TypeError"
    ELSE IF Len(value.s) = 0 THEN "InvalidBlock"
    ELSE IF Head(value.s) \in Digits THEN "InvalidBlock"
    ELSE IF ~(Chars(value.s) \subseteq VARIABLE_ALLOWED_CHARS) THEN "InvalidBlock"
    ELSE "none"

safe_quoted_string(value) ==
    IF validate_safe_string(value) # "none" THEN Raise(validate_safe_string(value))
    ELSE Return("'" \o value.s \o "'")

validate_edge_direction(direction) ==
    IF ~isinstance_str(direction) THEN "TypeError"
    ELSE IF direction.s \notin {"in", "out"} THEN "InvalidBlock"
    ELSE "none"

ensure_unicode_string(value) ==
    IF ~isinstance_str(value) THEN [exc |-> "TypeError", value |-> value]
    ELSE [exc |-> "none", value |-> value]

\* The texts of a sequence of calls, and the first exception among them.
Texts(results) == [i \in 1..Len(results) |-> results[i].text]
Excs(results) == [i \in 1..Len(results) |-> results[i].exc]

(***************************************************************************)
(* QueryRoot                                                               *)
(***************************************************************************)
QueryRoot_validate(self) ==
    IF ~(self.start_class.t = "set"
         /\ \A x \in Range(self.start_class.order) : isinstance_str(x))
    THEN "TypeError"
    ELSE FirstError([i \in 1..Len(self.start_class.order) |->
                        validate_safe_string(self.start_class.order[i])])

\* Without the single-class branch: the T.in form for every set.
QueryRoot_to_gremlin_AlwaysIn(self) ==
    IF QueryRoot_validate(self) # "none" THEN Raise(QueryRoot_validate(self))
    ELSE Return("g.V.has('@class', T.in, ["
                \o Join(",", [i \in 1..Len(self.start_class.order) |->
                                 safe_quoted_string(self.start_class.order[i]).text])
                \o "])")

QueryRoot_to_gremlin(self) ==
    IF QueryRoot_validate(self) # "none" THEN Raise(QueryRoot_validate(self))
    ELSE LET order == self.start_class.order
             quoted == [i \in 1..Len(order) |-> safe_quoted_string(order[i])]
         IN  IF FirstError(Excs(quoted)) # "none" THEN Raise(FirstError(Excs(quoted)))
             ELSE IF Len(order) = 1
                  THEN Return("g.V(" \o "'@class'" \o ", " \o quoted[1].text \o ")")
                  ELSE Return("g.V.has('@class', T.in, ["
                              \o Join(",", Texts(quoted)) \o "])")

(***************************************************************************)
(* CoerceType                                                              *)
(***************************************************************************)
CoerceType_validate(self) ==
    IF ~(self.target_class.t = "set"
         /\ \A x \in Range(self.target_class.order) : isinstance_str(x))
    THEN "TypeError"
    ELSE FirstError([i \in 1..Len(self.target_class.order) |->
                        validate_safe_string(self.target_class.order[i])])

\* Rendered as the type filter the block stands for.
CoerceType_to_gremlin_AsFilter(self) ==
    IF CoerceType_validate(self) # "none" THEN Raise(CoerceType_validate(self))
    ELSE Return("has('@class', T.in, ["
                \o Join(",", [i \in 1..Len(self.target_class.order) |->
                                 safe_quoted_string(self.target_class.order[i]).text])
                \o "])")

CoerceType_to_gremlin(self) == Raise("AssertionError")

(***************************************************************************)
(* The collaborators of the blocks: expressions and locations.             *)
(***************************************************************************)
Expression(id, gremlin) == [t |-> "Expression", id |-> id, gremlin |-> gremlin]

\* Three expression objects; e3 is equal to e1 and another instance.
Exprs == {Expression("e1", "m.Animal___1.name"),
          Expression("e2", "it.uuid"),
          Expression("e3", "m.Animal___1.name")}

Expression_to_gremlin(expr) == Return(expr.gremlin)

\* A visitor_fn maps each expression to what it returns for it: the same
\* expression, another one, or something that is no expression.
Visitors ==
    {v \in [{e.id : e \in Exprs} -> Exprs \cup {PyNone}] :
        /\ v["e1"].t = "Expression" => v["e1"].id \in {"e1", "e3"}
        /\ v["e2"] \in {e \in Exprs : e.id \in {"e1", "e2"}}
        /\ v["e3"] \in {e \in Exprs : e.id = "e3"}}

Expression_visit_and_update(expr, visitor_fn) == visitor_fn[expr.id]

Location(name, field) == [t |-> "Location", name |-> name, field |-> field]
FoldScopeLocation(name, field) ==
    [t |-> "FoldScopeLocation", name |-> name, field |-> field]

validate_marked_location(location) ==
    IF location.t \notin {"Location", "FoldScopeLocation"} THEN "TypeError"
    ELSE IF location.field # PyNone THEN "InvalidBlock"
    ELSE "none"

\* get_location_name() returns (mark_name, field); the blocks use mark_name.
get_location_name(location) == <<location.name, location.field>>

(***************************************************************************)
(* dict                                                                    *)
(***************************************************************************)
Item(key, value) == [key |-> key, value |-> value]
Keys(items) == [i \in 1..Len(items) |-> items[i].key]
HasKey(items, key) == \E i \in 1..Len(items) : items[i].key = key
Lookup(items, key) == items[CHOOSE i \in 1..Len(items) : items[i].key = key].value

\* d[key] = value: a present key keeps its place, a new one goes last.
DictSet(items, key, value) ==
    IF HasKey(items, key)
    THEN [i \in 1..Len(items) |->
             IF items[i].key = key THEN Item(key, value) ELSE items[i]]
    ELSE Append(items, Item(key, value))

\* dict(d, **updates)
RECURSIVE DictUpdate(_, _)
DictUpdate(items, updates) ==
    IF Len(updates) = 0 THEN items
    ELSE DictUpdate(DictSet(items, Head(updates).key, Head(updates).value),
                    Tail(updates))

\* sorted(keys) of strings.
RECURSIVE Insert(_, _)
Insert(sorted, key) ==
    IF Len(sorted) = 0 THEN <<key>>
    ELSE IF StrLess(key.s, Head(sorted).s) THEN <<key>> \o sorted
    ELSE <<Head(sorted)>> \o Insert(Tail(sorted), key)

\* The keys in the order the dict enumerates them.
Sorted_IterationOrder(keys) == keys

RECURSIVE Sorted(_)
Sorted(keys) ==
    IF Len(keys) = 0 THEN <<>>
    ELSE Insert(Sorted(SubSeq(keys, 1, Len(keys) - 1)), keys[Len(keys)])

(***************************************************************************)
(* ConstructResult                                                         *)
(***************************************************************************)
ConstructResult_validate(self) ==
    IF self.fields.t # "dict" THEN "TypeError"
    ELSE FirstError([i \in 1..Len(self.fields.items) |->
            IF validate_safe_string(self.fields.items[i].key) # "none"
            THEN validate_safe_string(self.fields.items[i].key)
            ELSE IF ~isinstance_Expression(self.fields.items[i].value)
            THEN "TypeError"
            ELSE "none"])

ConstructResult_to_gremlin(self) ==
    IF ConstructResult_validate(self) # "none"
    THEN Raise(ConstructResult_validate(self))
    ELSE LET items == self.fields.items
             keys == Sorted(Keys(items))
             field_representations ==
                 [i \in 1..Len(keys) |->
                     keys[i].s \o ": "
                     \o Expression_to_gremlin(Lookup(items, keys[i])).text]
         IN  Return("transform{"
                    \o "it, m -> new com.orientechnologies.orient.core.record.impl.ODocument([ "
                    \o Join(", ", field_representations)
                    \o " ])"
                    \o "}")

(***************************************************************************)
(* Filter                                                                  *)
(***************************************************************************)
Filter_validate(self) ==
    IF ~isinstance_Expression(self.predicate) THEN "TypeError" ELSE "none"

Filter_to_gremlin(self) ==
    IF Filter_validate(self) # "none" THEN Raise(Filter_validate(self))
    ELSE Return("filter{it, m -> "
                \o Expression_to_gremlin(self.predicate).text \o "}")

(***************************************************************************)
(* MarkLocation                                                            *)
(***************************************************************************)
MarkLocation_validate(self) == validate_marked_location(self.location)

MarkLocation_to_gremlin(self) ==
    IF MarkLocation_validate(self) # "none" THEN Raise(MarkLocation_validate(self))
    ELSE LET mark_name == get_location_name(self.location)[1]
         IN  IF safe_quoted_string(mark_name).exc # "none"
             THEN Raise(safe_quoted_string(mark_name).exc)
             ELSE Return("as(" \o safe_quoted_string(mark_name).text \o ")")

(***************************************************************************)
(* Traverse                                                                *)
(***************************************************************************)
Traverse_validate(self) ==
    IF ~isinstance_str(self.direction) THEN "TypeError"
    ELSE IF validate_edge_direction(self.direction) # "none"
    THEN validate_edge_direction(self.direction)
    ELSE IF validate_safe_string(self.edge_name) # "none"
    THEN validate_safe_string(self.edge_name)
    ELSE IF ~isinstance_bool(self.optional) THEN "TypeError"
    ELSE IF ~isinstance_bool(self.within_optional_scope) THEN "TypeError"
    ELSE "none"

Traverse_get_field_name(self) == self.direction.s \o "_" \o self.edge_name.s

\* The optional guard reads the property named by the edge alone.
Traverse_to_gremlin_EdgeNameProperty(self) ==
    IF Traverse_validate(self) # "none" THEN Raise(Traverse_validate(self))
    ELSE IF self.optional.b
    THEN Return("ifThenElse{it." \o self.edge_name.s \o " == null}"
                \o "{null}{it." \o self.direction.s \o "("
                \o safe_quoted_string(self.edge_name).text \o ")}")
    ELSE IF self.within_optional_scope.b
    THEN Return("ifThenElse{it == null}{null}{it." \o self.direction.s \o "("
                \o safe_quoted_string(self.edge_name).text \o ")}")
    ELSE Return(self.direction.s \o "("
                \o safe_quoted_string(self.edge_name).text \o ")")

Traverse_to_gremlin(self) ==
    IF Traverse_validate(self) # "none" THEN Raise(Traverse_validate(self))
    ELSE IF self.optional.b
    THEN Return("ifThenElse{it." \o self.direction.s \o "_" \o self.edge_name.s
                \o " == null}"
                \o "{null}{it." \o self.direction.s \o "("
                \o safe_quoted_string(self.edge_name).text \o ")}")
    ELSE IF self.within_optional_scope.b
    THEN Return("ifThenElse{it == null}{null}{it." \o self.direction.s \o "("
                \o safe_quoted_string(self.edge_name).text \o ")}")
    ELSE Return(self.direction.s \o "("
                \o safe_quoted_string(self.edge_name).text \o ")")

(***************************************************************************)
(* Recurse                                                                 *)
(***************************************************************************)
\* The depth check off by one: depth >= 0.
Recurse_validate_DepthFromZero(self) ==
    IF validate_edge_direction(self.direction) # "none"
    THEN validate_edge_direction(self.direction)
    ELSE IF validate_safe_string(self.edge_name) # "none"
    THEN validate_safe_string(self.edge_name)
    ELSE IF ~isinstance_bool(self.within_optional_scope) THEN "TypeError"
    ELSE IF ~isinstance_int(self.depth) THEN "TypeError"
    ELSE IF ~(IntValue(self.depth) >= 0) THEN "ValueError"
    ELSE "none"

Recurse_validate(self) ==
    IF validate_edge_direction(self.direction) # "none"
    THEN validate_edge_direction(self.direction)
    ELSE IF validate_safe_string(self.edge_name) # "none"
    THEN validate_safe_string(self.edge_name)
    ELSE IF ~isinstance_bool(self.within_optional_scope) THEN "TypeError"
    ELSE IF ~isinstance_int(self.depth) THEN "TypeError"
    ELSE IF ~(IntValue(self.depth) >= 1) THEN "ValueError"
    ELSE "none"

\* The unrolling stops one path short: range(depth) for range(depth + 1).
Recurse_to_gremlin_OnePathShort(self) ==
    IF Recurse_validate(self) # "none" THEN Raise(Recurse_validate(self))
    ELSE LET recurse_traversal ==
                 "." \o self.direction.s \o "('" \o self.edge_name.s \o "')"
             recurse_steps ==
                 [k \in 1..IntValue(self.depth) |->
                     "_()" \o Repeat(recurse_traversal, k - 1)]
             recursion_string ==
                 "copySplit(" \o Join(",", recurse_steps) \o ").exhaustMerge"
         IN  IF self.within_optional_scope.b
             THEN Return("ifThenElse{it == null}{null}{it." \o recursion_string \o "}")
             ELSE Return(recursion_string)

Recurse_to_gremlin(self) ==
    IF Recurse_validate(self) # "none" THEN Raise(Recurse_validate(self))
    ELSE LET recurse_base == "_()"
             recurse_traversal ==
                 "." \o self.direction.s \o "('" \o self.edge_name.s \o "')"
             recurse_steps ==
                 [k \in 1..(IntValue(self.depth) + 1) |->
                     recurse_base \o Repeat(recurse_traversal, k - 1)]
             recursion_string ==
                 "copySplit(" \o Join(",", recurse_steps) \o ").exhaustMerge"
         IN  IF self.within_optional_scope.b
             THEN Return("ifThenElse{it == null}{null}{it." \o recursion_string \o "}")
             ELSE Return(recursion_string)

(***************************************************************************)
(* Backtrack                                                               *)
(***************************************************************************)
Backtrack_validate(self) ==
    IF validate_marked_location(self.location) # "none"
    THEN validate_marked_location(self.location)
    ELSE IF ~isinstance_bool(self.optional) THEN "TypeError"
    ELSE "none"

\* Without the call of validate(): the location is used as it is.
Backtrack_to_gremlin_NoValidate(self) ==
    IF self.location.t \notin {"Location", "FoldScopeLocation"}
    THEN Raise("AttributeError")
    ELSE LET operation ==
                 IF self.optional \notin {PyBool(FALSE), PyNone}
                 THEN "optional" ELSE "back"
             mark_name == get_location_name(self.location)[1]
         IN  IF safe_quoted_string(mark_name).exc # "none"
             THEN Raise(safe_quoted_string(mark_name).exc)
             ELSE Return(operation \o "(" \o safe_quoted_string(mark_name).text \o ")")

Backtrack_to_gremlin(self) ==
    IF Backtrack_validate(self) # "none" THEN Raise(Backtrack_validate(self))
    ELSE LET operation == IF self.optional.b THEN "optional" ELSE "back"
             mark_name == get_location_name(self.location)[1]
         IN  IF safe_quoted_string(mark_name).exc # "none"
             THEN Raise(safe_quoted_string(mark_name).exc)
             ELSE Return(operation \o "(" \o safe_quoted_string(mark_name).text \o ")")

(***************************************************************************)
(* The blocks as one family: block.validate(), block.to_gremlin() and the  *)
(* constructors.                                                           *)
(***************************************************************************)
validate(self) ==
    CASE self.kind = "QueryRoot" -> QueryRoot_validate(self)
      [] self.kind = "CoerceType" -> CoerceType_validate(self)
      [] self.kind = "ConstructResult" -> ConstructResult_validate(self)
      [] self.kind = "Filter" -> Filter_validate(self)
      [] self.kind = "MarkLocation" -> MarkLocation_validate(self)
      [] self.kind = "Traverse" -> Traverse_validate(self)
      [] self.kind = "Recurse" -> Recurse_validate(self)
      [] self.kind = "Backtrack" -> Backtrack_validate(self)

to_gremlin(self) ==
    CASE self.kind = "QueryRoot" -> QueryRoot_to_gremlin(self)
      [] self.kind = "CoerceType" -> CoerceType_to_gremlin(self)
      [] self.kind = "ConstructResult" -> ConstructResult_to_gremlin(self)
      [] self.kind = "Filter" -> Filter_to_gremlin(self)
      [] self.kind = "MarkLocation" -> MarkLocation_to_gremlin(self)
      [] self.kind = "Traverse" -> Traverse_to_gremlin(self)
      [] self.kind = "Recurse" -> Recurse_to_gremlin(self)
      [] self.kind = "Backtrack" -> Backtrack_to_gremlin(self)

\* The outcome of a constructor: the exception it raised, or the block.
Built(self) == [exc |-> validate(self), block |-> self]
NotBuilt(e) == [exc |-> e, block |-> PyNone]

QueryRoot_init(start_class) ==
    Built([kind |-> "QueryRoot", start_class |-> start_class])

CoerceType_init(target_class) ==
    Built([kind |-> "CoerceType", target_class |-> target_class])

\* {ensure_unicode_string(key): value for key, value in six.iteritems(fields)}
RECURSIVE NormalizedItems(_)
NormalizedItems(items) ==
    IF Len(items) = 0 THEN <<>>
    ELSE LET last == items[Len(items)]
         IN  DictSet(NormalizedItems(SubSeq(items, 1, Len(items) - 1)),
                     ensure_unicode_string(last.key).value, last.value)

\* self.fields is the dict the comprehension builds, never the argument.
ConstructResult_fields_is_argument(fields) == FALSE

ConstructResult_init(fields) ==
    IF fields.t # "dict" THEN NotBuilt("AttributeError")
    ELSE IF FirstError([i \in 1..Len(fields.items) |->
                           ensure_unicode_string(fields.items[i].key).exc]) # "none"
    THEN NotBuilt("TypeError")
    ELSE Built([kind |-> "ConstructResult",
                fields |-> PyDict(NormalizedItems(fields.items))])

Filter_init(predicate) == Built([kind |-> "Filter", predicate |-> predicate])

MarkLocation_init(location) == Built([kind |-> "MarkLocation", location |-> location])

Traverse_init(direction, edge_name, optional, within_optional_scope) ==
    Built([kind |-> "Traverse", direction |-> direction, edge_name |-> edge_name,
           optional |-> optional, within_optional_scope |-> within_optional_scope])

Recurse_init(direction, edge_name, depth, within_optional_scope) ==
    Built([kind |-> "Recurse", direction |-> direction, edge_name |-> edge_name,
           depth |-> depth, within_optional_scope |-> within_optional_scope])

Backtrack_init(location, optional) ==
    Built([kind |-> "Backtrack", location |-> location, optional |-> optional])

(***************************************************************************)
(* visit_and_update_expressions.  The outcome names the exception raised,  *)
(* whether a new block was constructed (fresh) and, if so, that block;     *)
(* when fresh is FALSE the method returned self.                           *)
(***************************************************************************)
ReturnSelf(self) == [exc |-> "none", fresh |-> FALSE, block |-> self]
ReturnNew(built) == [exc |-> built.exc, fresh |-> TRUE, block |-> built.block]

\* Without the short circuit: a Filter is constructed in every case.
Filter_visit_and_update_expressions_AlwaysNew(self, visitor_fn) ==
    IF ~isinstance_Expression(self.predicate)
    THEN [exc |-> "AttributeError", fresh |-> FALSE, block |-> self]
    ELSE ReturnNew(Filter_init(Expression_visit_and_update(self.predicate, visitor_fn)))

Filter_visit_and_update_expressions(self, visitor_fn) ==
    IF ~isinstance_Expression(self.predicate)
    THEN [exc |-> "AttributeError", fresh |-> FALSE, block |-> self]
    ELSE LET new_predicate == Expression_visit_and_update(self.predicate, visitor_fn)
         IN  IF new_predicate # self.predicate
             THEN ReturnNew(Filter_init(new_predicate))
             ELSE ReturnSelf(self)

\* The items of new_fields: the fields whose expression was replaced.
RECURSIVE NewFields(_, _)
NewFields(items, visitor_fn) ==
    IF Len(items) = 0 THEN <<>>
    ELSE LET value == Head(items).value
             new_value == Expression_visit_and_update(value, visitor_fn)
         IN  IF new_value # value
             THEN <<Item(Head(items).key, new_value)>>
                  \o NewFields(Tail(items), visitor_fn)
             ELSE NewFields(Tail(items), visitor_fn)

ConstructResult_visit_and_update_expressions(self, visitor_fn) ==
    IF self.fields.t # "dict"
       \/ \E i \in 1..Len(self.fields.items) :
             ~isinstance_Expression(self.fields.items[i].value)
    THEN [exc |-> "AttributeError", fresh |-> FALSE, block |-> self]
    ELSE LET new_fields == NewFields(self.fields.items, visitor_fn)
         IN  IF Len(new_fields) > 0
             THEN ReturnNew(ConstructResult_init(
                      PyDict(DictUpdate(self.fields.items, new_fields))))
             ELSE ReturnSelf(self)

\* The update written into the block's own dict instead of a copy of it.
ConstructResult_self_after_visit_InPlace(self, visitor_fn) ==
    IF ConstructResult_visit_and_update_expressions(self, visitor_fn).exc # "none"
    THEN self
    ELSE [self EXCEPT !.fields =
             PyDict(DictUpdate(self.fields.items,
                               NewFields(self.fields.items, visitor_fn)))]

\* The block the method leaves behind: it reads self.fields and
\* self.predicate and assigns to its locals alone.
ConstructResult_self_after_visit(self, visitor_fn) == self

Filter_self_after_visit(self, visitor_fn) == self

self_after_visit(self, visitor_fn) ==
    IF self.kind = "Filter"
    THEN Filter_self_after_visit(self, visitor_fn)
    ELSE ConstructResult_self_after_visit(self, visitor_fn)

visit_and_update_expressions(self, visitor_fn) ==
    IF self.kind = "Filter"
    THEN Filter_visit_and_update_expressions(self, visitor_fn)
    ELSE ConstructResult_visit_and_update_expressions(self, visitor_fn)

(***************************************************************************)
(* The arguments the client passes.                                        *)
(***************************************************************************)
ClassElems == {PyStr("Animal"), PyStr("Entity"), PyStr(""), PyStr("1Animal"),
               PyStr("Animal'"), PyInt(1)}

ClassSetInputs ==
    {PySet(order) : order \in DistinctSeqs(ClassElems, MaxClasses)}
    \cup {PyList(<<PyStr("Animal")>>), PyStr("Animal"), PyNone}

FieldKeys == {PyStr("ab"), PyStr("a"), PyStr("B"), PyStr("1a"), PyInt(1)}

FieldValues == {e \in Exprs : e.id # "e3"} \cup {PyNone}

FieldsInputs ==
    {PyDict(items) : items \in
        {q \in DistinctSeqs({Item(k, v) : k \in FieldKeys, v \in FieldValues},
                            MaxFields) :
            \A i, j \in 1..Len(q) : q[i].key = q[j].key => i = j}}
    \cup {PyNone}

Predicates == Exprs \cup {PyNone, PyStr("it.uuid")}

Locations == {Location(PyStr("Animal___1"), PyNone),
              Location(PyStr("Animal___1"), PyStr("name")),
              FoldScopeLocation(PyStr("Animal__out_Animal_ParentOf___1"), PyNone),
              PyStr("Animal___1")}

Directions == {PyStr("in"), PyStr("out"), PyStr("both"), PyNone}

EdgeNames == {PyStr("Animal_ParentOf"), PyStr("E"), PyStr(""), PyStr("E'"), PyInt(1)}

Flags == {PyBool(TRUE), PyBool(FALSE), PyInt(1), PyNone}

Depths == {PyInt(d) : d \in (0 - 1)..MaxDepth}
          \cup {PyBool(TRUE), PyBool(FALSE), PyFloat(1), PyNone}

(***************************************************************************)
(* State: heap is the sequence of the blocks that exist, a block's index   *)
(* its identity; ret is the outcome of the last call; mapping is the dict  *)
(* the client passed to ConstructResult(...) and still holds: its items,   *)
(* the blocks whose fields attribute is that very dict, and whether the    *)
(* client has changed it since.                                            *)
(***************************************************************************)
Outcome(op, args, self, exc, text, ref) ==
    [op |-> op, args |-> args, self |-> self, exc |-> exc, text |-> text, ref |-> ref]

Init ==
    /\ heap = <<>>
    /\ ret = Outcome("none", <<>>, 0, "none", "", 0)
    /\ mapping = [items |-> <<>>, held_by |-> {}, changed |-> FALSE]

\* The client has made no call yet: its first call constructs a block from
\* arguments of its choice, every later block derives from that one.
NoCallYet == heap = <<>> /\ ret.op = "none"

\* A constructor call: the block exists only if __init__ returned.
Construct(op, args, built) ==
    /\ Len(heap) < MaxBlocks
    /\ heap' = IF built.exc = "none" THEN Append(heap, built.block) ELSE heap
    /\ ret' = Outcome(op, args, 0, built.exc, "",
                      IF built.exc = "none" THEN Len(heap) + 1 ELSE 0)

NewQueryRoot ==
    /\ NoCallYet
    /\ \E start_class \in ClassSetInputs :
          Construct("QueryRoot", <<start_class>>, QueryRoot_init(start_class))
    /\ UNCHANGED mapping

NewCoerceType ==
    /\ NoCallYet
    /\ \E target_class \in ClassSetInputs :
          Construct("CoerceType", <<target_class>>, CoerceType_init(target_class))
    /\ UNCHANGED mapping

NewConstructResult ==
    /\ NoCallYet
    /\ \E fields \in FieldsInputs :
          Construct("ConstructResult", <<fields>>, ConstructResult_init(fields))
    /\ UNCHANGED mapping

\* ConstructResult(fields) by a client that keeps its reference to fields.
NewConstructResultKeeping ==
    /\ NoCallYet
    /\ \E fields \in FieldsInputs :
          /\ Construct("ConstructResult", <<fields>>, ConstructResult_init(fields))
          /\ mapping' =
                [items |-> IF fields.t = "dict" THEN fields.items ELSE <<>>,
                 held_by |-> IF /\ ConstructResult_init(fields).exc = "none"
                                /\ ConstructResult_fields_is_argument(fields)
                             THEN {Len(heap) + 1} ELSE {},
                 changed |-> FALSE]

NewFilter ==
    /\ NoCallYet
    /\ \E predicate \in Predicates :
          Construct("Filter", <<predicate>>, Filter_init(predicate))
    /\ UNCHANGED mapping

NewMarkLocation ==
    /\ NoCallYet
    /\ \E location \in Locations :
          Construct("MarkLocation", <<location>>, MarkLocation_init(location))
    /\ UNCHANGED mapping

NewTraverse ==
    /\ NoCallYet
    /\ \E direction \in Directions, edge_name \in EdgeNames,
          optional \in Flags, within_optional_scope \in Flags :
          Construct("Traverse",
                    <<direction, edge_name, optional, within_optional_scope>>,
                    Traverse_init(direction, edge_name, optional,
                                  within_optional_scope))
    /\ UNCHANGED mapping

NewRecurse ==
    /\ NoCallYet
    /\ \E direction \in Directions, edge_name \in EdgeNames,
          depth \in Depths, within_optional_scope \in Flags :
          Construct("Recurse",
                    <<direction, edge_name, depth, within_optional_scope>>,
                    Recurse_init(direction, edge_name, depth, within_optional_scope))
    /\ UNCHANGED mapping

NewBacktrack ==
    /\ NoCallYet
    /\ \E location \in Locations, optional \in Flags :
          Construct("Backtrack", <<location, optional>>,
                    Backtrack_init(location, optional))
    /\ UNCHANGED mapping

\* block.to_gremlin()
Render ==
    \E i \in 1..Len(heap) :
        /\ ret' = Outcome("to_gremlin", <<>>, i, to_gremlin(heap[i]).exc,
                          to_gremlin(heap[i]).text, 0)
        /\ UNCHANGED <<heap, mapping>>

\* block.visit_and_update_expressions(visitor_fn)
Rewrite ==
    \E i \in 1..Len(heap), visitor_fn \in Visitors :
        /\ heap[i].kind \in {"Filter", "ConstructResult"}
        /\ Len(heap) < MaxBlocks
        /\ LET out == visit_and_update_expressions(heap[i], visitor_fn)
               made == out.exc = "none" /\ out.fresh
               kept == [heap EXCEPT ![i] = self_after_visit(heap[i], visitor_fn)]
           IN  /\ heap' = IF made THEN Append(kept, out.block) ELSE kept
               /\ ret' = Outcome("visit_and_update_expressions", <<visitor_fn>>, i,
                                 out.exc, "",
                                 IF out.exc # "none" THEN 0
                                 ELSE IF out.fresh THEN Len(heap) + 1 ELSE i)
        /\ UNCHANGED mapping

\* The arguments equal in value to the fields of a block: a set or a dict
\* equal to the block's may enumerate its elements in any order.
EqualArgs(self) ==
    CASE self.kind = "QueryRoot" ->
            {<<PySet(order)>> : order \in Orderings(Range(self.start_class.order))}
      [] self.kind = "CoerceType" ->
            {<<PySet(order)>> : order \in Orderings(Range(self.target_class.order))}
      [] self.kind = "ConstructResult" ->
            {<<PyDict(items)>> : items \in Orderings(Range(self.fields.items))}
      [] self.kind = "Filter" -> {<<self.predicate>>}
      [] self.kind = "MarkLocation" -> {<<self.location>>}
      [] self.kind = "Traverse" ->
            {<<self.direction, self.edge_name, self.optional,
               self.within_optional_scope>>}
      [] self.kind = "Recurse" ->
            {<<self.direction, self.edge_name, self.depth,
               self.within_optional_scope>>}
      [] self.kind = "Backtrack" -> {<<self.location, self.optional>>}

init(kind, args) ==
    CASE kind = "QueryRoot" -> QueryRoot_init(args[1])
      [] kind = "CoerceType" -> CoerceType_init(args[1])
      [] kind = "ConstructResult" -> ConstructResult_init(args[1])
      [] kind = "Filter" -> Filter_init(args[1])
      [] kind = "MarkLocation" -> MarkLocation_init(args[1])
      [] kind = "Traverse" -> Traverse_init(args[1], args[2], args[3], args[4])
      [] kind = "Recurse" -> Recurse_init(args[1], args[2], args[3], args[4])
      [] kind = "Backtrack" -> Backtrack_init(args[1], args[2])

\* The client constructs a second block from arguments equal to the fields
\* of one that exists.
Rebuild ==
    /\ \E i \in 1..Len(heap) :
          \E args \in EqualArgs(heap[i]) :
              Construct(heap[i].kind, args, init(heap[i].kind, args))
    /\ UNCHANGED mapping

\* The values an attribute of a block may be assigned.
AttrValues(self, attr) ==
    CASE attr \in {"start_class", "target_class"} -> ClassSetInputs
      [] attr = "fields" -> FieldsInputs
      [] attr = "predicate" -> Predicates
      [] attr = "location" -> Locations
      [] attr = "direction" -> Directions
      [] attr = "edge_name" -> EdgeNames
      [] attr \in {"optional", "within_optional_scope"} -> Flags
      [] attr = "depth" -> Depths

\* block.<attr> = value, through a reference the client kept.
SetAttr ==
    \E i \in 1..Len(heap) :
        \E attr \in DOMAIN heap[i] \ {"kind"} :
            \E value \in AttrValues(heap[i], attr) :
                /\ heap' = [heap EXCEPT ![i] = [@ EXCEPT ![attr] = value]]
                /\ ret' = Outcome("setattr", <<>>, i, "none", "", 0)
                /\ mapping' = [mapping EXCEPT !.held_by =
                                  IF attr = "fields" THEN @ \ {i} ELSE @]

\* Blocks used as the immutable values they are meant to be.
Next ==
    \/ NewQueryRoot
    \/ NewCoerceType
    \/ NewConstructResult
    \/ NewFilter
    \/ NewMarkLocation
    \/ NewTraverse
    \/ NewRecurse
    \/ NewBacktrack
    \/ Render
    \/ Rewrite
    \/ Rebuild

Spec == Init /\ [][Next]_vars

\* One block whose attributes are assigned after construction.
NextAlias ==
    \/ NewQueryRoot
    \/ NewCoerceType
    \/ NewConstructResult
    \/ NewFilter
    \/ NewMarkLocation
    \/ NewTraverse
    \/ NewRecurse
    \/ NewBacktrack
    \/ SetAttr
    \/ Render

SpecAlias == Init /\ [][NextAlias]_vars

\* fields[key] = value on the dict the client passed to ConstructResult:
\* the blocks whose fields attribute is that dict change with it.
MutateMapping ==
    /\ heap # <<>>
    /\ heap[1].kind = "ConstructResult"
    /\ ~mapping.changed
    /\ \E key \in FieldKeys, value \in FieldValues :
          LET items == DictSet(mapping.items, key, value)
          IN  /\ mapping' = [mapping EXCEPT !.items = items, !.changed = TRUE]
              /\ heap' = [i \in 1..Len(heap) |->
                            IF i \in mapping.held_by
                            THEN [heap[i] EXCEPT !.fields = PyDict(items)]
                            ELSE heap[i]]
              /\ ret' = Outcome("setitem", <<key, value>>, 0, "none", "", 0)

\* A ConstructResult, its rewrites, and the client changing its own dict.
NextMapping ==
    \/ NewConstructResultKeeping
    \/ MutateMapping
    \/ Rewrite
    \/ Render

SpecMapping == Init /\ [][NextMapping]_vars

(***************************************************************************)
(* Reading rendered text back.                                             *)
(***************************************************************************)
Contains(text, sub) ==
    \E i \in 1..(Len(text) - Len(sub) + 1) : SubSeq(text, i, i + Len(sub) - 1) = sub

StartsWith(text, prefix) ==
    Len(prefix) <= Len(text) /\ SubSeq(text, 1, Len(prefix)) = prefix

EndsWith(text, suffix) ==
    Len(suffix) <= Len(text)
    /\ SubSeq(text, Len(text) - Len(suffix) + 1, Len(text)) = suffix

\* text without its first n and its last m characters.
Strip(text, n, m) == SubSeq(text, n + 1, Len(text) - m)

\* The position of the first occurrence of sub in text, 0 if there is none.
IndexOf(text, sub) ==
    IF Contains(text, sub)
    THEN CHOOSE i \in 1..(Len(text) - Len(sub) + 1) :
            /\ SubSeq(text, i, i + Len(sub) - 1) = sub
            /\ \A j \in 1..(i - 1) : SubSeq(text, j, j + Len(sub) - 1) # sub
    ELSE 0

\* text.split(sep), and <<>> for the empty text.
RECURSIVE Split(_, _)
Split(text, sep) ==
    IF Len(text) = 0 THEN <<>>
    ELSE IF IndexOf(text, sep) = 0 THEN <<text>>
    ELSE <<SubSeq(text, 1, IndexOf(text, sep) - 1)>>
         \o Split(SubSeq(text, IndexOf(text, sep) + Len(sep), Len(text)), sep)

\* The block the last call was made on.
Self == heap[ret.self]

Rendered(kind) ==
    ret.op = "to_gremlin" /\ Self.kind = kind /\ ret.exc = "none"

(***************************************************************************)
(* C1.  A Traverse with optional = true and within_optional_scope = true   *)
(* renders a text that holds both checks, the one on the edge property     *)
(* '<direction>_<edge_name>' and the one on the current element, and that  *)
(* is the text of neither single-flag Traverse of the same direction and   *)
(* edge name.                                                              *)
(***************************************************************************)
C1_BothFlagsCompose ==
    (Rendered("Traverse") /\ Self.optional.b /\ Self.within_optional_scope.b) =>
        /\ Contains(ret.text, "it." \o Traverse_get_field_name(Self) \o " == null")
        /\ Contains(ret.text, "it == null")
        /\ ret.text # to_gremlin([Self EXCEPT !.within_optional_scope = PyBool(FALSE)]).text
        /\ ret.text # to_gremlin([Self EXCEPT !.optional = PyBool(FALSE)]).text

(***************************************************************************)
(* C2.  QueryRoot(...) and CoerceType(...) return a block exactly when the *)
(* class set is a non-empty set of safe identifier strings; for any other  *)
(* argument they raise a validation error and no block exists.             *)
(***************************************************************************)
ValidationErrors == {"TypeError", "ValueError", "InvalidBlock"}

NonEmptySetOfIdentifiers(value) ==
    /\ value.t = "set"
    /\ Len(value.order) > 0
    /\ \A x \in Range(value.order) : validate_safe_string(x) = "none"

C2_ClassSetNonEmptyIdentifiers ==
    ret.op \in {"QueryRoot", "CoerceType"} =>
        IF NonEmptySetOfIdentifiers(ret.args[1])
        THEN ret.exc = "none" /\ ret.ref \in 1..Len(heap)
        ELSE ret.exc \in ValidationErrors /\ heap = <<>>

(***************************************************************************)
(* C3.  Rendering depends on the field values alone: a block that has the  *)
(* field values of the block just rendered renders the same text.          *)
(***************************************************************************)
SameValue(a, b) ==
    /\ a.kind = b.kind
    /\ CASE a.kind = "QueryRoot" ->
                Range(a.start_class.order) = Range(b.start_class.order)
         [] a.kind = "CoerceType" ->
                Range(a.target_class.order) = Range(b.target_class.order)
         [] a.kind = "ConstructResult" ->
                Range(a.fields.items) = Range(b.fields.items)
         [] OTHER -> a = b

C3_RenderingDeterministic ==
    ret.op = "to_gremlin" =>
        \A j \in 1..Len(heap) :
            SameValue(Self, heap[j]) =>
                /\ to_gremlin(heap[j]).exc = ret.exc
                /\ to_gremlin(heap[j]).text = ret.text

(***************************************************************************)
(* C4.  The text of a ConstructResult lists the output-field names in      *)
(* strictly ascending lexicographic order, each name of the block once,    *)
(* whatever the order of the mapping.                                      *)
(***************************************************************************)
RenderedNames(text) ==
    LET open == "ODocument([ "
        inner == SubSeq(text, IndexOf(text, open) + Len(open), Len(text) - Len(" ])}"))
        assignments == Split(inner, ", ")
    IN  [k \in 1..Len(assignments) |->
            SubSeq(assignments[k], 1, IndexOf(assignments[k], ": ") - 1)]

C4_FieldsInLexicographicOrder ==
    Rendered("ConstructResult") =>
        LET names == RenderedNames(ret.text)
        IN  /\ \A k \in 1..(Len(names) - 1) : StrLess(names[k], names[k + 1])
            /\ Len(names) = Len(Self.fields.items)
            /\ Range(names) = {item.key.s : item \in Range(Self.fields.items)}

C4_Witness ==
    /\ Rendered("ConstructResult")
    /\ Len(Self.fields.items) >= 2
    /\ StrLess(Self.fields.items[2].key.s, Self.fields.items[1].key.s)

(***************************************************************************)
(* C5.  visit_and_update_expressions on a Filter or a ConstructResult      *)
(* returns the block itself when every expression of the block comes back  *)
(* from the rewrite as the same object, and a new block when one of them   *)
(* comes back as another expression.                                       *)
(***************************************************************************)
ContainedExpressions(self) ==
    IF self.kind = "Filter" THEN {self.predicate}
    ELSE {item.value : item \in Range(self.fields.items)}

C5_RewriteIdentity ==
    ret.op = "visit_and_update_expressions" =>
        LET visitor_fn == ret.args[1]
            contained == ContainedExpressions(Self)
            unchanged == \A e \in contained : visitor_fn[e.id] = e
            expressions == \A e \in contained : visitor_fn[e.id].t = "Expression"
        IN  /\ unchanged => ret.exc = "none" /\ ret.ref = ret.self
            /\ (~unchanged /\ expressions) =>
                  /\ ret.exc = "none"
                  /\ ret.ref # ret.self
                  /\ ret.ref = Len(heap)
                  /\ heap[ret.ref].kind = Self.kind

\* A field came back as an equal expression that is another object, one
\* field came back as itself, and the method returned a new block.
C5_Witness ==
    /\ ret.op = "visit_and_update_expressions"
    /\ Self.kind = "ConstructResult"
    /\ ret.ref # ret.self
    /\ ret.exc = "none"
    /\ \E e \in ContainedExpressions(Self) :
          ret.args[1][e.id] # e /\ ret.args[1][e.id].gremlin = e.gremlin
    /\ \E e \in ContainedExpressions(Self) : ret.args[1][e.id] = e

(***************************************************************************)
(* C6.  The text of a Recurse of depth d is one copySplit(...).exhaustMerge *)
(* step over exactly d + 1 paths, the i-th path (i = 0..d) being the base  *)
(* step _() followed by exactly i edge steps .<direction>('<edge_name>');  *)
(* within an optional scope that step is wrapped in the guard on the       *)
(* current element being null, otherwise it stands unwrapped.              *)
(***************************************************************************)
NullGuardOpen == "ifThenElse{it == null}{null}{it."

\* path is the base step followed by exactly i copies of step.
IsPathOfLength(path, step, i) ==
    /\ Len(path) = Len("_()") + i * Len(step)
    /\ StartsWith(path, "_()")
    /\ \A m \in 0..(i - 1) :
          SubSeq(path, Len("_()") + m * Len(step) + 1,
                 Len("_()") + (m + 1) * Len(step)) = step

IsUnrolledRecursion(text, step, d) ==
    /\ StartsWith(text, "copySplit(")
    /\ EndsWith(text, ").exhaustMerge")
    /\ LET paths == Split(Strip(text, Len("copySplit("), Len(").exhaustMerge")), ",")
       IN  /\ Len(paths) = d + 1
           /\ \A i \in 0..d : IsPathOfLength(paths[i + 1], step, i)

C6_RecurseUnrolled ==
    Rendered("Recurse") =>
        LET step == "." \o Self.direction.s \o "('" \o Self.edge_name.s \o "')"
            d == IntValue(Self.depth)
        IN  IF Self.within_optional_scope.b
            THEN /\ StartsWith(ret.text, NullGuardOpen)
                 /\ EndsWith(ret.text, "}")
                 /\ IsUnrolledRecursion(Strip(ret.text, Len(NullGuardOpen), Len("}")),
                                        step, d)
            ELSE IsUnrolledRecursion(ret.text, step, d)

C6_Witness ==
    /\ Rendered("Recurse")
    /\ IntValue(Self.depth) = MaxDepth
    /\ Self.within_optional_scope.b

(***************************************************************************)
(* C7.  to_gremlin on a CoerceType never returns text: it raises, and the  *)
(* exception is of none of the kinds a failed validation raises.           *)
(***************************************************************************)
\* The exceptions the constructors raise on the arguments of the model.
RaisedByValidation ==
    ({QueryRoot_init(c).exc : c \in ClassSetInputs}
     \cup {CoerceType_init(c).exc : c \in ClassSetInputs}
     \cup {Filter_init(e).exc : e \in Predicates}
     \cup {MarkLocation_init(l).exc : l \in Locations}
     \cup {Backtrack_init(l, o).exc : l \in Locations, o \in Flags}
     \cup {Traverse_init(d, e, o, w).exc :
              d \in Directions, e \in EdgeNames, o \in Flags, w \in Flags}
     \cup {Recurse_init(d, e, n, w).exc :
              d \in Directions, e \in EdgeNames, n \in Depths, w \in Flags})
    \ {"none"}

C7_CoerceTypeNeverRenders ==
    (ret.op = "to_gremlin" /\ Self.kind = "CoerceType") =>
        /\ ret.exc # "none"
        /\ ret.text = ""
        /\ ret.exc \notin RaisedByValidation
        /\ ret.exc \notin ValidationErrors

C7_Witness ==
    /\ ret.op = "to_gremlin"
    /\ Self.kind = "CoerceType"
    /\ CoerceType_validate(Self) = "none"
    /\ Len(Self.target_class.order) = 1
    /\ RaisedByValidation = ValidationErrors

(***************************************************************************)
(* C8.  to_gremlin validates again: on a block one of whose attributes was *)
(* assigned a value that validate() rejects, it raises the validation      *)
(* error and returns no text; it returns text only when validate() passes. *)
(***************************************************************************)
RenderingKinds == {"QueryRoot", "ConstructResult", "Filter", "MarkLocation",
                   "Traverse", "Recurse", "Backtrack"}

C8_RenderValidates ==
    (ret.op = "to_gremlin" /\ Self.kind \in RenderingKinds) =>
        /\ validate(Self) # "none" =>
              /\ ret.exc = validate(Self)
              /\ ret.exc \in ValidationErrors
              /\ ret.text = ""
        /\ ret.exc = "none" => validate(Self) = "none"

\* A block that was constructed, then made invalid, then rendered.
C8_Witness ==
    /\ ret.op = "to_gremlin"
    /\ Self.kind = "Recurse"
    /\ Self.depth = PyInt(0)
    /\ ret.exc = "ValueError"

(***************************************************************************)
(* C9.  Recurse(...) returns a block when direction is 'in' or 'out',      *)
(* edge_name is a safe identifier, within_optional_scope is a bool and     *)
(* depth is an integer >= 1; it raises a validation error, and no block    *)
(* exists, when depth < 1, when depth is no integer or when                *)
(* within_optional_scope is no bool.  Traverse(...) raises when optional   *)
(* or within_optional_scope is no bool.  (A Python bool is an integer.)    *)
(***************************************************************************)
IsBool(value) == value.t = "bool"
IsInteger(value) == value.t \in {"int", "bool"}
IsDirection(value) == value \in {PyStr("in"), PyStr("out")}
Raised == ret.exc \in ValidationErrors /\ ret.ref = 0 /\ heap = <<>>
Constructed(kind) ==
    ret.exc = "none" /\ ret.ref = Len(heap) /\ heap[ret.ref].kind = kind

C9_RecurseTraverseArguments ==
    /\ ret.op = "Recurse" =>
          LET direction == ret.args[1]
              edge_name == ret.args[2]
              depth == ret.args[3]
              within_optional_scope == ret.args[4]
          IN  /\ (/\ IsDirection(direction)
                  /\ validate_safe_string(edge_name) = "none"
                  /\ IsBool(within_optional_scope)
                  /\ IsInteger(depth)
                  /\ IntValue(depth) >= 1) => Constructed("Recurse")
              /\ (IsInteger(depth) /\ IntValue(depth) < 1) => Raised
              /\ ~IsInteger(depth) => Raised
              /\ ~IsBool(within_optional_scope) => Raised
    /\ (ret.op = "Traverse" /\ (~IsBool(ret.args[3]) \/ ~IsBool(ret.args[4]))) =>
          Raised

\* Everything but the depth is valid and the constructor raised.
C9_Witness ==
    /\ ret.op = "Recurse"
    /\ IsDirection(ret.args[1])
    /\ validate_safe_string(ret.args[2]) = "none"
    /\ ret.args[3] = PyInt(0)
    /\ IsBool(ret.args[4])
    /\ ret.exc = "ValueError"

(***************************************************************************)
(* C10.  A Traverse with neither flag renders the plain edge step          *)
(* <direction>('<edge_name>') with no guard; with optional alone it        *)
(* renders the guard that gives null when the property get_field_name()    *)
(* names is null and the edge step otherwise; with within_optional_scope   *)
(* alone it renders the guard that gives null when the current element is  *)
(* null and the edge step otherwise, and does not read the edge property.  *)
(***************************************************************************)
EdgeStep(self) == self.direction.s \o "('" \o self.edge_name.s \o "')"
Guarded(condition, step) ==
    "ifThenElse{" \o condition \o "}{null}{it." \o step \o "}"

C10_TraverseSingleFlag ==
    Rendered("Traverse") =>
        /\ (~Self.optional.b /\ ~Self.within_optional_scope.b) =>
              /\ ret.text = EdgeStep(Self)
              /\ ~Contains(ret.text, "null")
        /\ (Self.optional.b /\ ~Self.within_optional_scope.b) =>
              ret.text = Guarded("it." \o Traverse_get_field_name(Self) \o " == null",
                                 EdgeStep(Self))
        /\ (~Self.optional.b /\ Self.within_optional_scope.b) =>
              /\ ret.text = Guarded("it == null", EdgeStep(Self))
              /\ ~Contains(ret.text, Traverse_get_field_name(Self))

C10_Witness ==
    /\ Rendered("Traverse")
    /\ Self.optional.b
    /\ ~Self.within_optional_scope.b
    /\ Self.direction.s = "in"

(***************************************************************************)
(* C11.  The text of a QueryRoot has one of two shapes: with exactly one   *)
(* class name, the vertex fetch g.V('@class', <name>) on the single class; *)
(* with any other number of class names, g.V.has('@class', T.in, [...])    *)
(* whose list holds each class name of the set exactly once.  In both      *)
(* shapes every class name appears as the quoting helper returns it.       *)
(***************************************************************************)
QuotedClassNames(self) ==
    {safe_quoted_string(x).text : x \in Range(self.start_class.order)}

C11_QueryRootShapes ==
    Rendered("QueryRoot") =>
        LET names == Range(Self.start_class.order)
        IN  IF Cardinality(names) = 1
            THEN /\ \E q \in QuotedClassNames(Self) :
                       ret.text = "g.V('@class', " \o q \o ")"
                 /\ ~Contains(ret.text, "T.in")
            ELSE /\ StartsWith(ret.text, "g.V.has('@class', T.in, [")
                 /\ EndsWith(ret.text, "])")
                 /\ LET listed == Split(Strip(ret.text,
                                              Len("g.V.has('@class', T.in, ["),
                                              Len("])")), ",")
                    IN  /\ Len(listed) = Cardinality(names)
                        /\ Range(listed) = QuotedClassNames(Self)

C11_Witness ==
    /\ Rendered("QueryRoot")
    /\ Cardinality(Range(Self.start_class.order)) = MaxClasses

(***************************************************************************)
(* C12.  A ConstructResult rewrite leaves every block that existed before  *)
(* the call, the one it is called on included, exactly as it was; when it  *)
(* returns, the returned block has the same field names as the original,   *)
(* as many of them, each name whose expression the visitor replaced mapped *)
(* to the replacement and every other name mapped to the very expression   *)
(* of the original.  And an assignment into the mapping that was passed to *)
(* the ConstructResult constructor changes no block.                       *)
(***************************************************************************)
C12_RewriteFrame ==
    [][/\ ret'.op = "visit_and_update_expressions" =>
             LET self == heap[ret'.self]
                 visitor_fn == ret'.args[1]
             IN  self.kind = "ConstructResult" =>
                   /\ Len(heap') >= Len(heap)
                   /\ \A j \in 1..Len(heap) : heap'[j] = heap[j]
                   /\ ret'.exc = "none" =>
                         LET new == heap'[ret'.ref]
                             old_items == self.fields.items
                         IN  /\ new.kind = "ConstructResult"
                             /\ new.fields.t = "dict"
                             /\ Len(new.fields.items) = Len(old_items)
                             /\ Range(Keys(new.fields.items)) = Range(Keys(old_items))
                             /\ \A i \in 1..Len(old_items) :
                                   LET expression == old_items[i].value
                                       new_value == visitor_fn[expression.id]
                                   IN  Lookup(new.fields.items, old_items[i].key)
                                         = IF new_value # expression
                                           THEN new_value ELSE expression
       /\ ret'.op = "setitem" => heap' = heap]_vars

\* The client changed its mapping, and then a rewrite of the block built
\* from it returned a new block with one field replaced and one kept.
C12_Witness ==
    /\ mapping.changed
    /\ mapping.items # heap[1].fields.items
    /\ ret.op = "visit_and_update_expressions"
    /\ ret.exc = "none"
    /\ ret.self = 1
    /\ ret.ref = Len(heap)
    /\ ret.ref # ret.self
    /\ Len(heap[1].fields.items) = MaxFields
    /\ \E i, j \in 1..MaxFields :
          /\ heap[ret.ref].fields.items[i].value # heap[1].fields.items[i].value
          /\ heap[ret.ref].fields.items[j].value = heap[1].fields.items[j].value

====
